---- MODULE Spec2Model ----
(***************************************************************************)
(* WebflowConnection (Webflow.ts): the request queue, the single-flight    *)
(* dispatcher request(), the rate-limit pacing, and the facade operations  *)
(* built on fetch().                                                       *)
(*                                                                         *)
(* One step of the model is one macrotask of the JavaScript event loop     *)
(* together with the microtasks (promise reactions) it triggers: a caller  *)
(* invoking a facade method, the network delivering a response or failing, *)
(* a response body finishing its decoding, a timer firing.  Time is        *)
(* counted in whole seconds (the code's delays are 1000 * n ms).           *)
(***************************************************************************)
EXTENDS Integers, Sequences, FiniteSets, Bags, TLC

\* ------------------------------------------------------------------ bounds
MaxCalls == 3          \* direct fetch() calls a client makes in one behaviour
MaxTotal == 250        \* the largest collection fetchAllItems is run against
MaxItemCalls == 2      \* fetchItem calls a client makes in one behaviour
MaxLiveCalls == 2      \* direct fetch() calls of the client whose exchanges are all answered

\* ------------------------------------------------------- program constants
INITIAL_RATELIMIT == 120      \* private ratelimit: number = 120
LOW_WATER_MARK == 60          \* this.ratelimit < 60 ? 1000 * (60 - ...) : 0
MAX_SUCCESS_STATUS == 299     \* response.status > 299
PAGE_SIZE == 100              \* limit: number = 100, Math.ceil(total / 100)

VARIABLES
    queue,          \* this.queue: the Request objects not yet sent (call ids)
    isFetching,     \* this.isFetching
    ratelimit,      \* this.ratelimit
    requests,       \* every Request object fetch() created, in creation order
    promises,       \* the promise fetch() returned for each Request
    exchange,       \* the global fetch() of each Request: its state and response status
    responses,      \* the Response whose body a resolved request is waiting for
    timers,         \* pending setTimeout(() => this.request(), d): bag of seconds left
    started,        \* the order in which request() started the exchanges
    sinceResponse,  \* seconds since the last response was processed
    unhandled,      \* exchanges whose rejection no handler received
    fa,             \* the fetchAllItems call: its promise, its items array, its page calls
    ca,             \* the createItemAllLocales call: its promises and its calls
    del,            \* the deleteItem call: its promise and its per-locale calls
    fi,             \* the fetchItem calls: the promise each one returned
    total           \* the number of items of the collection on the server

vars == <<queue, isFetching, ratelimit, requests, promises, exchange, responses,
          timers, started, sinceResponse, unhandled, fa, ca, del, fi, total>>

\* ------------------------------------------------------------- data shapes
NoDoc == [kind |-> "none", offset |-> 0, limit |-> 0]

RawEndpoint == [kind |-> "raw", offset |-> 0, limit |-> 0]

ErrorDoc == [kind |-> "error", offset |-> 0, limit |-> 0]

NoValue == [tag |-> "none", doc |-> NoDoc]

NoResponse == [status |-> 0, json |-> FALSE, wellFormed |-> FALSE, doc |-> NoDoc]

\* state: none (not started), outstanding, responded, failed
NoExchange == [state |-> "none", status |-> 0]

NewPromise == [state |-> "pending", value |-> NoValue, nresolve |-> 0, nreject |-> 0]

\* fetchAllItems: state is idle (not called), first (waiting for the first
\* page), pages (waiting for Promise.all of the other pages), fulfilled or
\* rejected; first and pages are its calls, waiting the page promises not yet
\* fulfilled, items the array it returns, error its rejection reason.
NoFetchAll ==
    [state |-> "idle", first |-> 0, pages |-> <<>>, waiting |-> {},
     items |-> <<>>, error |-> NoValue]

TypeError == [tag |-> "TypeError", doc |-> NoDoc]

\* enum Locales, in declaration order (Object.values(Locales))
ENGLISH == "ENGLISH"

SPANISH == "SPANISH"

CHINESE == "CHINESE"

Locales == <<ENGLISH, SPANISH, CHINESE>>

\* constructor(token, primaryLocale = Locales.ENGLISH)
PRIMARY_LOCALE == ENGLISH

\* the value of no item: undefined
Undefined == [tag |-> "undefined", doc |-> NoDoc]

\* the identifier the server gives the item a bulk creation makes; the
\* variants of the item in the other locales carry the same identifier
ANCHOR_ID == "anchor"

\* an identifier no item of the collection has
UNKNOWN_ID == "unknown"

\* an item as the API sends it: {id, cmsLocaleId, ...}
Item(id, locale) == [kind |-> "item", id |-> id, locale |-> locale]

\* the payload {} the API sends for an item that does not exist
EmptyDoc == [kind |-> "empty"]

\* createItemAllLocales: state is idle (not called), bulk (waiting for the
\* bulk creation), updates (waiting for Promise.all of the locale updates),
\* fulfilled or rejected (the promise returned to the caller); bulk, updates
\* and publish are its calls, done the update promises fulfilled so far in
\* the order they fulfilled, result the array it returns; chain is the
\* promise of promise.then(publish).then(console.log): none (live is false),
\* pending, logged, or unhandled (rejected, and nothing handles it).
NoCreate ==
    [state |-> "idle", live |-> FALSE, locales |-> <<>>, bulk |-> 0,
     updates |-> <<>>, done |-> <<>>, mainItem |-> Undefined, result |-> <<>>,
     error |-> NoValue, publish |-> 0, chain |-> "none"]

\* deleteItem: state is idle, waiting (for Promise.all of the calls),
\* fulfilled or rejected; calls are its per-locale calls in list order,
\* done the ones whose promise fulfilled.
NoDelete ==
    [state |-> "idle", live |-> FALSE, locales |-> <<>>, calls |-> <<>>,
     done |-> {}, error |-> NoValue]

\* the promise a fetchItem call returned
NewItemPromise == [state |-> "pending", value |-> NoValue]

\* The sizes of the collection: none, one item, a full page, one more than a
\* page, and several pages.
Totals == {0, 1, PAGE_SIZE, PAGE_SIZE + 1, MaxTotal}

\* What the server can answer.
Statuses == {299, 300}

HeaderNums == {-1, 60}

Headers ==
    {[kind |-> "missing", n |-> 0], [kind |-> "text", n |-> 0]}
        \cup {[kind |-> "num", n |-> k] : k \in HeaderNums}

\* The document the server sends for a request: the resource on success, an
\* error description otherwise.
ServerDoc(options, status) ==
    IF status > MAX_SUCCESS_STATUS THEN ErrorDoc ELSE options

\* The documents the server can send: a single-item GET answers an
\* identifier it does not know with a success status and an empty payload.
ServerDocs(options, status) ==
    IF status <= MAX_SUCCESS_STATUS /\ options.kind = "item"
    THEN IF options.id = UNKNOWN_ID THEN {EmptyDoc}
         ELSE {Item(options.id, IF options.locale = "" THEN PRIMARY_LOCALE
                                ELSE options.locale)}
    ELSE {ServerDoc(options, status)}

\* status, whether the content-type includes application/json, whether the
\* body is a JSON text, and the document the body carries
Responses(options) ==
    {[status |-> s[1], json |-> j, wellFormed |-> w, doc |-> s[2]] :
        s \in UNION {{<<t, dd>> : dd \in ServerDocs(options, t)} : t \in Statuses},
        j \in BOOLEAN, w \in BOOLEAN}

\* ---------------------------------------------------------- pure functions
\* Number(x): null (header missing) is 0, a numeral is its value, anything
\* else is NaN.
JSNumber(h) ==
    CASE h.kind = "missing" -> [nan |-> FALSE, n |-> 0]
      [] h.kind = "num"     -> [nan |-> FALSE, n |-> h.n]
      [] OTHER              -> [nan |-> TRUE, n |-> 0]

\* Number(response.headers.get("x-ratelimit-remaining")) || 0
RemainingQuota(h) ==
    LET v == JSNumber(h) IN IF v.nan \/ v.n = 0 THEN 0 ELSE v.n

\* this.ratelimit < 60 ? 1000 * (60 - this.ratelimit) : 0, in seconds
PacingDelay(r) == IF r < LOW_WATER_MARK THEN LOW_WATER_MARK - r ELSE 0

\* the boundary status taken for an error
IsErrorStatus_offByOne(status) == status >= MAX_SUCCESS_STATUS

\* response.status > 299
IsErrorStatus(status) == status > MAX_SUCCESS_STATUS

\* The outcome of the promise response.json() / response.text() returns:
\* json() of a body that is not JSON rejects with a SyntaxError, text()
\* yields the body as a string.
Decode(resp) ==
    IF resp.json
    THEN IF resp.wellFormed
         THEN [ok |-> TRUE, value |-> [tag |-> "json", doc |-> resp.doc]]
         ELSE [ok |-> FALSE, value |-> [tag |-> "SyntaxError", doc |-> NoDoc]]
    ELSE [ok |-> TRUE, value |-> [tag |-> "text", doc |-> resp.doc]]

\* The not yet settled promise response.json() / response.text() returned.
BodyPromise(resp) == [tag |-> "promise", doc |-> resp.doc]

\* ------------------------------------------------------ the program state
State ==
    [queue |-> queue, isFetching |-> isFetching, ratelimit |-> ratelimit,
     requests |-> requests, promises |-> promises, exchange |-> exchange,
     responses |-> responses, timers |-> timers, started |-> started, fa |-> fa,
     ca |-> ca, del |-> del, fi |-> fi]

\* the step's result d is computed once and becomes the next state
Commit(d) ==
  \E n \in {d} :
    /\ queue' = n.queue
    /\ isFetching' = n.isFetching
    /\ ratelimit' = n.ratelimit
    /\ requests' = n.requests
    /\ promises' = n.promises
    /\ exchange' = n.exchange
    /\ responses' = n.responses
    /\ timers' = n.timers
    /\ started' = n.started
    /\ fa' = n.fa
    /\ ca' = n.ca
    /\ del' = n.del
    /\ fi' = n.fi

\* request() without the isFetching guard
request_unguarded(d) ==
    IF d.queue = <<>> THEN d
    ELSE LET c == Head(d.queue) IN
         [d EXCEPT !.queue = Tail(@),
                   !.isFetching = TRUE,
                   !.exchange[c].state = "outstanding",
                   !.started = Append(@, c)]

\* request() taking the newest Request (pop) instead of the oldest (shift)
request_pop(d) ==
    IF d.isFetching THEN d
    ELSE IF d.queue = <<>> THEN d
    ELSE LET c == d.queue[Len(d.queue)] IN
         [d EXCEPT !.queue = SubSeq(@, 1, Len(@) - 1),
                   !.isFetching = TRUE,
                   !.exchange[c].state = "outstanding",
                   !.started = Append(@, c)]

\* private async request(): the guard, the shift and the start of the exchange
request(d) ==
    IF d.isFetching THEN d
    ELSE IF d.queue = <<>> THEN d
    ELSE LET c == Head(d.queue) IN
         [d EXCEPT !.queue = Tail(@),
                   !.isFetching = TRUE,
                   !.exchange[c].state = "outstanding",
                   !.started = Append(@, c)]

\* fetch(options): a new Request and its promise, pushed, then request()
fetch(d, options) ==
    LET c == Len(d.requests) + 1 IN
    request([d EXCEPT !.requests = Append(@, options),
                      !.promises = Append(@, NewPromise),
                      !.exchange = Append(@, NoExchange),
                      !.responses = Append(@, NoResponse),
                      !.queue = Append(@, c)])

\* request.reject(v): a settled promise ignores it
rejectWith(d, c, v) ==
    LET p == d.promises[c] IN
    [d EXCEPT !.promises[c] =
        [p EXCEPT !.nreject = @ + 1,
                  !.state = IF p.state = "pending" THEN "rejected" ELSE @,
                  !.value = IF p.state = "pending" THEN v ELSE @]]

\* request.resolve(thenable): the promise is locked to the thenable and
\* settles as the thenable does
resolveWith(d, c, v) ==
    LET p == d.promises[c] IN
    [d EXCEPT !.promises[c] =
        [p EXCEPT !.nresolve = @ + 1,
                  !.state = IF p.state = "pending" THEN "locked" ELSE @,
                  !.value = IF p.state = "pending" THEN v ELSE @]]

\* the settlement without the else: an error response rejects and resolves
settle_noElse(d, c, resp) ==
    IF IsErrorStatus(resp.status)
    THEN resolveWith(rejectWith(d, c, BodyPromise(resp)), c, BodyPromise(resp))
    ELSE resolveWith(d, c, BodyPromise(resp))

\* the settlement of request.resolve / request.reject by the response status
settle(d, c, resp) ==
    IF IsErrorStatus(resp.status)
    THEN rejectWith(d, c, BodyPromise(resp))
    ELSE resolveWith(d, c, BodyPromise(resp))

\* the response callback without its last line: no next cycle is scheduled
schedule_dropped(d) == d

\* if (this.queue.length) setTimeout(() => this.request(), ...)
schedule(d) ==
    IF d.queue # <<>>
    THEN [d EXCEPT !.timers = @ (+) SetToBag({PacingDelay(d.ratelimit)})]
    ELSE d

\* Math.ceil(totalItems / 100)
PageCount(t) == (t + PAGE_SIZE - 1) \div PAGE_SIZE

\* the items of the page a decoded GetItemsResponse carries: the server
\* numbers the items of the collection 1..total and serves them by offset
PageItems(doc) ==
    LET n == IF total - doc.offset < doc.limit THEN total - doc.offset ELSE doc.limit
    IN [i \in 1..(IF n > 0 THEN n ELSE 0) |-> doc.offset + i]

\* fetchItems(collectionId, limit, offset)
fetchItems(d, limit, offset) ==
    fetch(d, [kind |-> "items", offset |-> offset, limit |-> limit])

\* fetchAllItems(collectionId): the call for the first page
fetchAllItems(d) ==
    LET d1 == fetchItems(d, PAGE_SIZE, 0) IN
    [d1 EXCEPT !.fa = [NoFetchAll EXCEPT !.state = "first", !.first = Len(d1.requests)]]

\* for (let i = 1; i < Math.ceil(totalItems / 100); i++) promises.push(this.fetchItems(...))
RECURSIVE pageLoop(_, _, _)
pageLoop(d, i, n) ==
    IF i < n
    THEN LET d1 == fetchItems(d, PAGE_SIZE, i * PAGE_SIZE) IN
         pageLoop([d1 EXCEPT !.fa.pages = Append(@, Len(d1.requests)),
                             !.fa.waiting = @ \cup {Len(d1.requests)}],
                  i + 1, n)
    ELSE d

\* the promise fetchAllItems returned rejects (a settled promise stays as it is)
rejectFetchAll(d, v) ==
    IF d.fa.state \in {"first", "pages"}
    THEN [d EXCEPT !.fa.state = "rejected", !.fa.error = v]
    ELSE d

\* Promise.all(promises).then(() => items) once no page promise is waiting
joinPages(d) ==
    IF d.fa.state \in {"first", "pages"} /\ d.fa.waiting = {}
    THEN [d EXCEPT !.fa.state = "fulfilled"]
    ELSE d

\* the first page is there: the .then(async response => ...) of fetchAllItems.
\* A text payload has no pagination: reading .total of undefined throws.
onFirstPage(d, v) ==
    IF v.tag # "json"
    THEN rejectFetchAll(d, TypeError)
    ELSE LET d1 == [d EXCEPT !.fa.items = PageItems(v.doc), !.fa.state = "pages"]
         IN joinPages(pageLoop(d1, 1, PageCount(total)))

\* a later page is there: .then(response => items.push(...response.items)).
\* A text payload has no items: spreading undefined throws.
onPage(d, c, v) ==
    IF v.tag # "json"
    THEN rejectFetchAll(d, TypeError)
    ELSE joinPages([d EXCEPT !.fa.items = @ \o PageItems(v.doc),
                             !.fa.waiting = @ \ {c}])

\* a rejected page ignored, as Promise.allSettled would
onPageRejected_allSettled(d, c) ==
    joinPages([d EXCEPT !.fa.waiting = @ \ {c}])

\* a later page's promise rejects: Promise.all rejects with its reason
onPageRejected(d, c) == rejectFetchAll(d, d.promises[c].value)

\* ------------------------------------------------ createItemAllLocales
\* the elements of a sequence
Range(seq) == {seq[i] : i \in DOMAIN seq}

\* the items a decoded bulk-creation payload carries: one per cmsLocaleId
\* asked for, all with the identifier of the new item
BulkItems(doc) == [i \in DOMAIN doc.locales |-> Item(ANCHOR_ID, doc.locales[i])]

\* items.find(item => item.cmsLocaleId === this.PRIMARY_LOCALE)
FindPrimary(items) ==
    LET hits == {i \in DOMAIN items : items[i].locale = PRIMARY_LOCALE} IN
    IF hits = {} THEN Undefined
    ELSE [tag |-> "json", doc |-> items[CHOOSE i \in hits : \A j \in hits : i <= j]]

\* updateItem(collectionId, itemId, itemData, live): PATCH .../items/${itemId}${live ? "/live" : ""}
updateItem(d, itemId, locale, live) ==
    fetch(d, [kind |-> "update", method |-> "PATCH", id |-> itemId,
              suffix |-> IF live THEN "/live" ELSE "", locale |-> locale])

\* publishItems(collectionId, itemIds): POST .../items/publish
publishItems(d, itemIds) ==
    fetch(d, [kind |-> "publish", method |-> "POST", ids |-> itemIds])

\* createItemAllLocales reading the primary locale's entry leniently
\* (itemData[this.PRIMARY_LOCALE]?.isArchived): the bulk POST is always sent
createItemAllLocales_unchecked(d, locales, live) ==
    LET d1 == fetch(d, [kind |-> "bulk", method |-> "POST", locales |-> locales]) IN
    [d1 EXCEPT !.ca = [NoCreate EXCEPT !.state = "bulk", !.bulk = Len(d1.requests),
                                       !.locales = locales, !.live = live,
                                       !.chain = IF live THEN "pending" ELSE "none"]]

\* createItemAllLocales(collectionId, itemData, live) up to its return: the
\* body of the bulk POST reads itemData[this.PRIMARY_LOCALE].isArchived, which
\* throws when the map has no entry for the primary locale; the async
\* function then returns a rejected promise and fetch() is never reached.
createItemAllLocales(d, locales, live) ==
    IF PRIMARY_LOCALE \notin Range(locales)
    THEN [d EXCEPT !.ca = [NoCreate EXCEPT !.state = "rejected", !.error = TypeError,
                                           !.locales = locales, !.live = live]]
    ELSE LET d1 == fetch(d, [kind |-> "bulk", method |-> "POST", locales |-> locales]) IN
         [d1 EXCEPT !.ca = [NoCreate EXCEPT !.state = "bulk", !.bulk = Len(d1.requests),
                                            !.locales = locales, !.live = live,
                                            !.chain = IF live THEN "pending" ELSE "none"]]

\* the promise createItemAllLocales returned rejects; with live the chain
\* promise.then(publish).then(console.log) rejects with it, and has no handler
rejectCreate(d, v) ==
    IF d.ca.state \in {"bulk", "updates"}
    THEN [d EXCEPT !.ca.state = "rejected", !.ca.error = v,
                   !.ca.chain = IF d.ca.live THEN "unhandled" ELSE @]
    ELSE d

\* the trailing publish without the test of live
publishCreated_unconditional(d) ==
    IF d.ca.result[1] = Undefined THEN [d EXCEPT !.ca.chain = "unhandled"]
    ELSE LET d1 == publishItems(d, <<d.ca.result[1].doc.id>>) IN
         [d1 EXCEPT !.ca.publish = Len(d1.requests)]

\* if (live) promise.then(items => this.publishItems(collectionId, [items[0].id]))
publishCreated(d) ==
    IF ~d.ca.live THEN d
    ELSE IF d.ca.result[1] = Undefined THEN [d EXCEPT !.ca.chain = "unhandled"]
    ELSE LET d1 == publishItems(d, <<d.ca.result[1].doc.id>>) IN
         [d1 EXCEPT !.ca.publish = Len(d1.requests)]

\* Promise.all collecting the values in the order the promises fulfilled
joinCreate_settleOrder(d) ==
    IF d.ca.state = "updates" /\ Range(d.ca.done) = Range(d.ca.updates)
    THEN publishCreated(
             [d EXCEPT !.ca.state = "fulfilled",
                       !.ca.result = <<d.ca.mainItem>> \o
                           [i \in DOMAIN d.ca.done |-> d.promises[d.ca.done[i]].value]])
    ELSE d

\* Promise.all([mainItem, ...promises]) once every update promise has
\* fulfilled: the values in the order of the array, then the reaction of
\* the trailing publish
joinCreate(d) ==
    IF d.ca.state = "updates" /\ Range(d.ca.done) = Range(d.ca.updates)
    THEN publishCreated(
             [d EXCEPT !.ca.state = "fulfilled",
                       !.ca.result = <<d.ca.mainItem>> \o
                           [i \in DOMAIN d.ca.updates |-> d.promises[d.ca.updates[i]].value]])
    ELSE d

\* the loop sending every locale but the primary one to the live endpoint
RECURSIVE updateLoop_live(_, _)
updateLoop_live(d, i) ==
    IF i > Len(d.ca.locales) THEN d
    ELSE IF d.ca.locales[i] = PRIMARY_LOCALE THEN updateLoop_live(d, i + 1)
    ELSE LET d1 == updateItem(d, d.ca.mainItem.doc.id, d.ca.locales[i], TRUE) IN
         updateLoop_live([d1 EXCEPT !.ca.updates = Append(@, Len(d1.requests))], i + 1)

\* for (const locale of Object.keys(itemData)): skip the primary locale,
\* promises.push(this.updateItem(collectionId, mainItem.id, {...}, false))
RECURSIVE updateLoop(_, _)
updateLoop(d, i) ==
    IF i > Len(d.ca.locales) THEN d
    ELSE IF d.ca.locales[i] = PRIMARY_LOCALE THEN updateLoop(d, i + 1)
    ELSE LET d1 == updateItem(d, d.ca.mainItem.doc.id, d.ca.locales[i], FALSE) IN
         updateLoop([d1 EXCEPT !.ca.updates = Append(@, Len(d1.requests))], i + 1)

\* the bulk creation is there: the .then(({items}) => ...) callback.  A text
\* payload has no items: items.find throws a TypeError; so does mainItem.id
\* when the list has no item of the primary locale.
onBulk(d, v) ==
    IF v.tag # "json" THEN rejectCreate(d, TypeError)
    ELSE LET mainItem == FindPrimary(BulkItems(v.doc))
             d1 == [d EXCEPT !.ca.mainItem = mainItem, !.ca.state = "updates"]
         IN IF mainItem = Undefined /\ Range(d.ca.locales) # {PRIMARY_LOCALE}
            THEN rejectCreate(d1, TypeError)
            ELSE joinCreate(updateLoop(d1, 1))

\* an update promise fulfils
onUpdate(d, c) == joinCreate([d EXCEPT !.ca.done = Append(@, c)])

\* an update promise rejects: Promise.all rejects with its reason
onUpdateRejected(d, c) == rejectCreate(d, d.promises[c].value)

\* the publish call fulfils: .then(console.log)
onPublished(d) == [d EXCEPT !.ca.chain = "logged"]

\* a rejected publish call rejecting the promise handed to the caller
onPublishRejected_propagated(d) ==
    [d EXCEPT !.ca.chain = "unhandled", !.ca.state = "rejected"]

\* the publish call rejects: the chain rejects, nothing handles it, and
\* the promise handed to the caller is not part of the chain
onPublishRejected(d) == [d EXCEPT !.ca.chain = "unhandled"]

\* ---------------------------------------------------------- deleteItem
\* the per-locale calls with the live parameter taken as it reads
RECURSIVE deleteLoop_direct(_, _, _, _)
deleteLoop_direct(d, itemId, live, i) ==
    IF i > Len(d.del.locales) THEN d
    ELSE LET d1 == fetch(d, [kind |-> "delete", method |-> "DELETE", id |-> itemId,
                             suffix |-> IF live THEN "/live" ELSE "",
                             locale |-> d.del.locales[i]])
         IN deleteLoop_direct([d1 EXCEPT !.del.calls = Append(@, Len(d1.requests))],
                              itemId, live, i + 1)

\* localeIds.map(locale => this.fetch({endpoint:
\*     `.../items/${itemId}${live ? "" : "/live"}?cmsLocaleIds=${locale}`, method: "DELETE"}))
RECURSIVE deleteLoop(_, _, _, _)
deleteLoop(d, itemId, live, i) ==
    IF i > Len(d.del.locales) THEN d
    ELSE LET d1 == fetch(d, [kind |-> "delete", method |-> "DELETE", id |-> itemId,
                             suffix |-> IF live THEN "" ELSE "/live",
                             locale |-> d.del.locales[i]])
         IN deleteLoop([d1 EXCEPT !.del.calls = Append(@, Len(d1.requests))],
                       itemId, live, i + 1)

\* Promise.all(calls) once every call's promise has fulfilled
joinDelete(d) ==
    IF d.del.state = "waiting" /\ d.del.done = Range(d.del.calls)
    THEN [d EXCEPT !.del.state = "fulfilled"]
    ELSE d

\* deleteItem(collectionId, itemId, localeIds, live)
deleteItem(d, itemId, localeIds, live) ==
    joinDelete(deleteLoop([d EXCEPT !.del = [NoDelete EXCEPT !.state = "waiting",
                                                             !.locales = localeIds,
                                                             !.live = live]],
                          itemId, live, 1))

\* a per-locale call's promise fulfils
onDeleted(d, c) == joinDelete([d EXCEPT !.del.done = @ \cup {c}])

\* a rejected per-locale call counted as finished, as Promise.allSettled would
onDeleteRejected_allSettled(d, c) == joinDelete([d EXCEPT !.del.done = @ \cup {c}])

\* a per-locale call's promise rejects: Promise.all rejects with its reason
\* at once, whatever the state of the other calls
onDeleteRejected(d, c) ==
    IF d.del.state = "waiting"
    THEN [d EXCEPT !.del.state = "rejected", !.del.error = d.promises[c].value]
    ELSE d

\* ----------------------------------------------------------- fetchItem
\* fetchItem(collectionId, itemId, localeId): the string overload of fetch
\* (a GET), localeId being "" when the caller gives none
fetchItem(d, itemId, localeId) ==
    LET d1 == fetch(d, [kind |-> "item", id |-> itemId, locale |-> localeId]) IN
    [d1 EXCEPT !.fi = @ @@ (Len(d1.requests) :> NewItemPromise)]

\* item.id of a fulfilled payload: a string (text payload) has no id, nor
\* has an empty object
HasId(v) == v.tag = "json" /\ v.doc.kind = "item" /\ v.doc.id # ""

\* the payload handed on as it came
onItem_raw(d, c, v) == [d EXCEPT !.fi[c] = [state |-> "fulfilled", value |-> v]]

\* .then((item: Item) => !item.id ? undefined : item)
onItem(d, c, v) ==
    [d EXCEPT !.fi[c] = [state |-> "fulfilled",
                         value |-> IF ~HasId(v) THEN Undefined ELSE v]]

\* the call's promise rejects: so does the promise fetchItem returned
onItemRejected(d, c) ==
    [d EXCEPT !.fi[c] = [state |-> "rejected", value |-> d.promises[c].value]]

\* the reactions to the settlement of the promise of call c
react(d, c) ==
    LET p == d.promises[c] IN
    IF c = d.fa.first
    THEN IF p.state = "fulfilled" THEN onFirstPage(d, p.value)
         ELSE rejectFetchAll(d, p.value)
    ELSE IF c \in d.fa.waiting
    THEN IF p.state = "fulfilled" THEN onPage(d, c, p.value)
         ELSE onPageRejected(d, c)
    ELSE IF c = d.ca.bulk
    THEN IF p.state = "fulfilled" THEN onBulk(d, p.value)
         ELSE rejectCreate(d, p.value)
    ELSE IF c \in Range(d.ca.updates)
    THEN IF p.state = "fulfilled" THEN onUpdate(d, c)
         ELSE onUpdateRejected(d, c)
    ELSE IF c = d.ca.publish
    THEN IF p.state = "fulfilled" THEN onPublished(d)
         ELSE onPublishRejected(d)
    ELSE IF c \in Range(d.del.calls)
    THEN IF p.state = "fulfilled" THEN onDeleted(d, c)
         ELSE onDeleteRejected(d, c)
    ELSE IF c \in DOMAIN d.fi
    THEN IF p.state = "fulfilled" THEN onItem(d, c, p.value)
         ELSE onItemRejected(d, c)
    ELSE d

\* the .then(response => ...) callback of request()
onResponse(d, c, resp, header) ==
    LET d1 == [d EXCEPT !.isFetching = FALSE,
                        !.ratelimit = RemainingQuota(header),
                        !.exchange[c] = [state |-> "responded", status |-> resp.status],
                        !.responses[c] = IF IsErrorStatus(resp.status) THEN NoResponse ELSE resp]
        d2 == schedule(settle(d1, c, resp))
    IN IF d2.promises[c].state = "rejected" THEN react(d2, c) ELSE d2

\* the body promise a locked request promise follows has settled; the
\* response is not referenced afterwards
onDecoded(d, c) ==
    LET r == Decode(d.responses[c]) IN
    react([d EXCEPT !.promises[c].state = IF r.ok THEN "fulfilled" ELSE "rejected",
                    !.promises[c].value = r.value,
                    !.responses[c] = NoResponse], c)

\* n seconds pass for every pending timer
Elapse(B, n) ==
    LET D == BagToSet(B)
        left(x) == IF x > n THEN x - n ELSE 0
    IN [y \in {left(x) : x \in D} |-> BagCardinality([x \in {z \in D : left(z) = y} |-> B[x]])]

\* the seconds until the next instant at which something falls due: a
\* pending timer, or the pacing delay of the last response (0: nothing runs)
NextInstant ==
    LET due == {x \in BagToSet(timers) : x > 0}
                 \cup {PacingDelay(ratelimit) - sinceResponse}
        pos == {x \in due : x > 0}
    IN IF pos = {} THEN 0 ELSE CHOOSE x \in pos : \A y \in pos : x <= y

\* ------------------------------------------------------------------ actions
InitConnection ==
    /\ queue = <<>>
    /\ isFetching = FALSE
    /\ ratelimit = INITIAL_RATELIMIT
    /\ requests = <<>>
    /\ promises = <<>>
    /\ exchange = <<>>
    /\ responses = <<>>
    /\ timers = EmptyBag
    /\ started = <<>>
    /\ sinceResponse = 0
    /\ unhandled = {}
    /\ fa = NoFetchAll
    /\ ca = NoCreate
    /\ del = NoDelete
    /\ fi = <<>>

\* a client that uses fetch() directly
Init == InitConnection /\ total = 0

\* a client that calls fetchAllItems on a collection of some size
InitPages == InitConnection /\ total \in Totals

\* a client calls wf.fetch(...) directly
Fetch ==
    /\ Len(requests) < MaxCalls
    /\ Commit(fetch(State, RawEndpoint))
    /\ UNCHANGED <<sinceResponse, unhandled, total>>

\* a client calls wf.fetchAllItems(collectionId)
FetchAllItems ==
    /\ fa.state = "idle"
    /\ Commit(fetchAllItems(State))
    /\ UNCHANGED <<sinceResponse, unhandled, total>>

\* the network delivers the response of the outstanding exchange
Respond ==
    \E c \in DOMAIN requests :
        /\ exchange[c].state = "outstanding"
        /\ \E resp \in Responses(requests[c]), header \in Headers :
               Commit(onResponse(State, c, resp, header))
        /\ sinceResponse' = 0
        /\ UNCHANGED <<unhandled, total>>

\* the exchange fails at transport level: the promise of the global fetch()
\* rejects; the chain fetch(...).then(cb) has no rejection handler, so the
\* callback never runs and the rejection goes unhandled.  A runtime that
\* ends the process on an unhandled rejection cuts the behaviour short here;
\* the behaviours of such a run are prefixes of the ones below.
TransportFail ==
    \E c \in DOMAIN requests :
        /\ exchange[c].state = "outstanding"
        /\ exchange' = [exchange EXCEPT ![c].state = "failed"]
        /\ unhandled' = unhandled \cup {c}
        /\ UNCHANGED <<queue, isFetching, ratelimit, requests, promises, responses,
                       timers, started, sinceResponse, fa, ca, del, fi, total>>

\* response.json() / response.text() of a resolved request settles
DecodeDone ==
    \E c \in DOMAIN requests :
        /\ promises[c].state = "locked"
        /\ Commit(onDecoded(State, c))
        /\ UNCHANGED <<sinceResponse, unhandled, total>>

\* a due timer runs () => this.request()
TimerFire ==
    /\ 0 \in BagToSet(timers)
    /\ Commit(request([State EXCEPT !.timers = @ (-) SetToBag({0})]))
    /\ UNCHANGED <<sinceResponse, unhandled, total>>

\* time passes up to the next instant at which a timer falls due or the
\* pacing delay of the last response has elapsed (the program reads no clock:
\* between two such instants every moment is alike to it)
Tick ==
    /\ NextInstant > 0
    /\ timers' = Elapse(timers, NextInstant)
    /\ sinceResponse' = IF sinceResponse < PacingDelay(ratelimit)
                        THEN sinceResponse + NextInstant ELSE sinceResponse
    /\ UNCHANGED <<queue, isFetching, ratelimit, requests, promises, exchange,
                   responses, started, unhandled, fa, ca, del, fi, total>>

Next ==
    \/ Fetch
    \/ Respond
    \/ TransportFail
    \/ DecodeDone
    \/ TimerFire
    \/ Tick

Spec == Init /\ [][Next]_vars

NextPages ==
    \/ FetchAllItems
    \/ Respond
    \/ TransportFail
    \/ DecodeDone
    \/ TimerFire
    \/ Tick

SpecPages == InitPages /\ [][NextPages]_vars

\* The locale maps a client passes, by their keys in Object.keys order:
\* all locales, the primary one not first, the primary one alone, and a map
\* without the primary locale.
LocaleMaps ==
    {<<ENGLISH, SPANISH, CHINESE>>, <<SPANISH, ENGLISH>>, <<ENGLISH>>,
     <<SPANISH, CHINESE>>}

\* a client calls wf.createItemAllLocales(collectionId, itemData, live)
CreateItemAllLocales ==
    /\ ca.state = "idle"
    /\ \E locales \in LocaleMaps, live \in BOOLEAN :
           Commit(createItemAllLocales(State, locales, live))
    /\ UNCHANGED <<sinceResponse, unhandled, total>>

NextCreate ==
    \/ CreateItemAllLocales
    \/ Respond
    \/ TransportFail
    \/ DecodeDone
    \/ TimerFire
    \/ Tick

SpecCreate == Init /\ [][NextCreate]_vars

\* The locale lists a client passes: the default Object.values(Locales), two
\* locales, one, and none.
LocaleLists == {Locales, <<ENGLISH, SPANISH>>, <<CHINESE>>, <<>>}

\* a client calls wf.deleteItem(collectionId, itemId, localeIds, live)
DeleteItem ==
    /\ del.state = "idle"
    /\ \E localeIds \in LocaleLists, live \in BOOLEAN :
           Commit(deleteItem(State, ANCHOR_ID, localeIds, live))
    /\ UNCHANGED <<sinceResponse, unhandled, total>>

NextDelete ==
    \/ DeleteItem
    \/ Respond
    \/ TransportFail
    \/ DecodeDone
    \/ TimerFire
    \/ Tick

SpecDelete == Init /\ [][NextDelete]_vars

\* The items a client asks for, as <<itemId, localeId>>: an item that
\* exists, with and without a locale, and an identifier no item has.
ItemQueries == {<<ANCHOR_ID, SPANISH>>, <<ANCHOR_ID, "">>, <<UNKNOWN_ID, "">>}

\* a client calls wf.fetchItem(collectionId, itemId, localeId?)
FetchItem ==
    /\ Len(requests) < MaxItemCalls
    /\ \E q \in ItemQueries : Commit(fetchItem(State, q[1], q[2]))
    /\ UNCHANGED <<sinceResponse, unhandled, total>>

NextItem ==
    \/ FetchItem
    \/ Respond
    \/ TransportFail
    \/ DecodeDone
    \/ TimerFire
    \/ Tick

SpecItem == Init /\ [][NextItem]_vars

\* The direct client when every started exchange produces a response: the
\* network answers, a body that is being read is read to its end, time
\* passes and the event loop runs the timers that are due.
FetchLive ==
    /\ Len(requests) < MaxLiveCalls
    /\ Commit(fetch(State, RawEndpoint))
    /\ UNCHANGED <<sinceResponse, unhandled, total>>

NextLive ==
    \/ FetchLive
    \/ Respond
    \/ DecodeDone
    \/ TimerFire
    \/ Tick

\* what the network, the clock and the event loop do on their own
Progress == Respond \/ DecodeDone \/ TimerFire \/ Tick

SpecLive == Init /\ [][NextLive]_vars /\ WF_vars(Progress)

\* ------------------------------------------------------------------ claims
Calls == DOMAIN requests

Outstanding == {c \in Calls : exchange[c].state = "outstanding"}

Responded == {c \in Calls : exchange[c].state = "responded"}

\* request.resolve or request.reject has been invoked for the call
Invoked(c) == promises[c].nresolve + promises[c].nreject

\* C1: single-flight: in every reachable state at most one network exchange
\* is outstanding, whatever the interleaving of enqueues, timers and responses.
C1_SingleFlight == Cardinality(Outstanding) <= 1

\* an exchange is outstanding while another call waits and a timer is due
C1_Witness == Outstanding # {} /\ queue # <<>> /\ 0 \in BagToSet(timers)

\* C2: FIFO dispatch: the exchanges are started in the order of the pushes
\* (call ids count the pushes), none skipped, duplicated or overtaken; the
\* calls not yet started wait in the queue in push order.
C2_FifoDispatch ==
    /\ \A i \in DOMAIN started : started[i] = i
    /\ \A i \in DOMAIN queue : queue[i] = Len(started) + i
    /\ Len(started) + Len(queue) = Len(requests)

\* three calls have been started, the last two after waiting in the queue together
C2_Witness == Len(started) >= 3 /\ queue = <<>> /\ timers # EmptyBag

\* C3: a call's handle is settled at most once and on one outcome, never
\* before its exchange has produced a response, and exactly once when it has.
C3_SettledOnce ==
    \A c \in Calls :
        /\ Invoked(c) <= 1
        /\ ~(promises[c].nresolve > 0 /\ promises[c].nreject > 0)
        /\ (Invoked(c) > 0 \/ promises[c].state # "pending") => c \in Responded
        /\ c \in Responded => Invoked(c) = 1 /\ promises[c].state # "pending"

\* one call fulfilled and another rejected
C3_Witness ==
    \E c, e \in Calls : promises[c].state = "fulfilled" /\ promises[e].state = "rejected"

\* C4: a call whose exchange failed at transport level has its handle
\* rejected, and the failure reaches a handler (the dispatcher does not throw).
C4_TransportFailureRejects ==
    \A c \in Calls :
        exchange[c].state = "failed" => promises[c].state = "rejected" /\ c \notin unhandled

\* C5: the rate limit state changes only when a response is processed and
\* is never negative.
C5_RateLimitState ==
    [][/\ ratelimit' >= 0
       /\ ratelimit' # ratelimit =>
              \E c \in Calls : exchange[c].state = "outstanding"
                                 /\ exchange'[c].state = "responded"]_vars

\* C6: once a response has reported the remaining quota R, no exchange is
\* started before the 60 - R seconds (none when R >= 60) have passed.
C6_Pacing ==
    [][(started' # started /\ Responded # {}) =>
           sinceResponse >= PacingDelay(ratelimit)]_vars

\* C7 as stated: the status alone decides: a response with status <= 299
\* never leaves the handle rejected, one with status > 299 leaves it rejected.
C7_StatusAloneDecides ==
    \A c \in Responded :
        IF exchange[c].status > 299
        THEN promises[c].state = "rejected"
        ELSE promises[c].state # "rejected"

\* C7 amended: a status > 299 rejects the handle at once; a status <= 299
\* resolves it, and it is then fulfilled exactly when the decoding that the
\* content-type selects succeeds (text always, JSON when the body is a JSON
\* text), and rejected with the decoding error otherwise.
C7_StatusThenDecoding ==
    /\ [](\A c \in Responded :
            IF exchange[c].status > 299
            THEN promises[c].nreject = 1 /\ promises[c].state = "rejected"
            ELSE /\ promises[c].nreject = 0
                 /\ promises[c].nresolve = 1
                 /\ promises[c].state \in {"locked", "fulfilled", "rejected"}
                 /\ promises[c].state = "locked" =>
                        responses[c].status = exchange[c].status)
    /\ [][\A c \in Calls :
            (promises[c].state = "locked" /\ promises'[c].state # "locked") =>
                IF responses[c].json /\ ~responses[c].wellFormed
                THEN promises'[c].state = "rejected"
                     /\ promises'[c].value.tag = "SyntaxError"
                ELSE promises'[c].state = "fulfilled"
                     /\ promises'[c].value.tag = (IF responses[c].json THEN "json" ELSE "text")]_vars

\* a 299 response fulfilled as text, a 299 response rejected by its JSON
\* decoding, and a 300 response rejected
C7_Witness ==
    \E a, b, c \in Responded :
        /\ exchange[a].status = 299 /\ promises[a].state = "fulfilled"
        /\ exchange[b].status = 299 /\ promises[b].state = "rejected"
        /\ exchange[c].status = 300 /\ promises[c].state = "rejected"

\* C8: the value a handle is rejected with on a status > 299 is the decoded
\* error body (the parsed JSON or the text).
C8_RejectedWithDecodedBody ==
    \A c \in Responded :
        exchange[c].status > 299 =>
            /\ promises[c].state = "rejected"
            /\ promises[c].value.tag \in {"json", "text"}
            /\ promises[c].value.doc = ErrorDoc

\* the calls of fetchAllItems, in the order it issued them
PageCalls == IF fa.state = "idle" THEN <<>> ELSE <<fa.first>> \o fa.pages

\* C9: fetchAllItems issues max(1, ceil(T / 100)) calls with offsets 0, 100,
\* 200, ..., the calls for the pages after the first all at once, and its
\* result is every item of the collection once, in offset-ascending order.
C9_Pagination ==
    /\ fa.state \in {"pages", "fulfilled"} =>
          /\ Len(PageCalls) = (IF PageCount(total) > 1 THEN PageCount(total) ELSE 1)
          /\ \A i \in DOMAIN PageCalls :
                 /\ PageCalls[i] = i
                 /\ requests[i] = [kind |-> "items", offset |-> (i - 1) * 100, limit |-> 100]
    /\ fa.state = "first" => Len(requests) = 1
    /\ fa.state = "fulfilled" => fa.items = [i \in 1..total |-> i]

\* C10: fail-fast: as soon as the first-page call or one of the other page
\* calls is rejected fetchAllItems is rejected, and it stays rejected: it
\* never fulfills with a partial list.
C10_FailFast ==
    /\ [](\A i \in DOMAIN PageCalls :
             promises[PageCalls[i]].state = "rejected" => fa.state = "rejected")
    /\ [][fa.state = "rejected" => fa'.state = "rejected"]_vars
    /\ [](fa.state = "fulfilled" => Len(fa.items) = total)

\* a later page was rejected after the others had delivered their items
C10_Witness ==
    /\ fa.state = "rejected"
    /\ Len(fa.pages) = 2
    /\ promises[fa.first].state = "fulfilled"
    /\ \E c \in fa.waiting : promises[c].state = "rejected"
    /\ Len(fa.items) > PAGE_SIZE

\* every call made so far has been dispatched and settled, and the dispatcher is idle
Quiescent ==
    /\ queue = <<>>
    /\ ~isFetching
    /\ \A c \in Calls : c \in Responded /\ promises[c].state \in {"fulfilled", "rejected"}

\* C17: no lost wake-up: when every started exchange answers and timers
\* fire, every enqueued call is eventually dispatched and its handle settled
\* and the queue drains (again and again the dispatcher is idle with every
\* call made so far settled), and the idle dispatcher starts an exchange only
\* in the step of a new fetch().
C17_NoLostWakeUp ==
    /\ []<>Quiescent
    /\ [][(queue = <<>> /\ ~isFetching /\ started' # started) =>
             Len(requests') = Len(requests) + 1]_vars

\* a call waits in the queue while the last response's pacing timer runs and
\* no exchange is outstanding
C17_Witness ==
    /\ queue # <<>>
    /\ ~isFetching
    /\ Outstanding = {}
    /\ \E x \in BagToSet(timers) : x > 0

\* C19: isFetching is true exactly while an exchange started by request()
\* is outstanding, also after an exchange ended by a transport failure.
C19_InFlightFlag == isFetching <=> Outstanding # {}

\* ------------------------------------------------- createItemAllLocales
\* the calls to an endpoint of one kind, in the order they were enqueued
CallsOfKind(k) ==
    SelectSeq([c \in 1..Len(requests) |-> c], LAMBDA c : requests[c].kind = k)

Fulfilled(c) == promises[c].state = "fulfilled"

Rejected(c) == promises[c].state = "rejected"

\* the locales of the map other than the primary one, in the map's order
Secondary == SelectSeq(ca.locales, LAMBDA l : l # PRIMARY_LOCALE)

\* the bulk creation fulfilled with a decoded JSON payload (an item list)
BulkCreated ==
    /\ ca.bulk # 0
    /\ Fulfilled(ca.bulk)
    /\ promises[ca.bulk].value.tag = "json"

C12_OrderedResult ==
    ca.state = "fulfilled" =>
        LET ups == CallsOfKind("update") IN
        /\ Fulfilled(ca.bulk)
        /\ Len(ups) = Len(Secondary)
        /\ \A i \in DOMAIN ups : Fulfilled(ups[i])
        /\ Len(ca.result) = 1 + Len(Secondary)
        /\ ca.result[1] = [tag |-> "json", doc |-> Item(ANCHOR_ID, PRIMARY_LOCALE)]
        /\ \A i \in DOMAIN ups :
               /\ ca.result[i + 1] = promises[ups[i]].value
               /\ ca.result[i + 1].doc.locale = Secondary[i]

\* the saga fulfilled although the second update settled before the first
C12_Witness ==
    /\ ca.state = "fulfilled"
    /\ Len(ca.result) = 3
    /\ ca.done # ca.updates

\* C13: with a locale map that has no entry for the primary locale the
\* promise of createItemAllLocales is rejected and no call is enqueued or
\* sent: the queue, the in-flight flag and the requests stay as they were.
C13_MissingPrimaryRejects ==
    (ca.state # "idle" /\ PRIMARY_LOCALE \notin Range(ca.locales)) =>
        /\ ca.state = "rejected"
        /\ ca.error = TypeError
        /\ requests = <<>>
        /\ queue = <<>>
        /\ ~isFetching
        /\ started = <<>>

\* createItemAllLocales has been called with a map of two non-primary locales
C13_Witness ==
    /\ ca.state = "rejected"
    /\ ca.locales = <<SPANISH, CHINESE>>

\* C14: when the trailing publish call is rejected, the promise handed to
\* the caller of createItemAllLocales is and stays fulfilled with the created
\* items; the publish failure does not reject it.
C14_PublishFailureIsolated ==
    (ca.publish # 0 /\ (Rejected(ca.publish) \/ exchange[ca.publish].state = "failed")) =>
        /\ ca.state = "fulfilled"
        /\ Len(ca.result) = 1 + Len(Secondary)
        /\ ca.error = NoValue

\* the publish call after a creation in three locales has been rejected
C14_Witness ==
    /\ ca.publish # 0
    /\ Rejected(ca.publish)
    /\ Len(ca.result) = 3
    /\ ca.chain = "unhandled"

\* every non-primary locale of the map has an update call that fulfilled
UpdatesFulfilled ==
    \A i \in DOMAIN Secondary :
        \E c \in Range(CallsOfKind("update")) :
            requests[c].locale = Secondary[i] /\ Fulfilled(c)

\* what C20 says about the publish call besides the condition of its issue:
\* at most one, for exactly the anchor's identifier, and none when the bulk
\* creation or an update is rejected, the saga then being rejected with the
\* reason of a rejected call
PublishShape ==
    LET pubs == CallsOfKind("publish")
        saga == IF ca.bulk = 0 THEN {} ELSE {ca.bulk} \cup Range(CallsOfKind("update"))
    IN /\ Len(pubs) <= 1
       /\ \A i \in DOMAIN pubs : /\ requests[pubs[i]].ids = <<ANCHOR_ID>>
                                 /\ requests[pubs[i]].method = "POST"
                                 /\ \A c \in saga : c < pubs[i]
       /\ (\E c \in saga : Rejected(c)) =>
              /\ pubs = <<>>
              /\ ca.state = "rejected"
              /\ \E c \in saga : Rejected(c) /\ ca.error = promises[c].value

\* C20 as stated: a publish call is enqueued if and only if live is true and
\* the bulk creation and every locale update have fulfilled.
C20_PublishIffAllFulfilled ==
    /\ CallsOfKind("publish") # <<>> <=>
           (ca.live /\ ca.bulk # 0 /\ Fulfilled(ca.bulk) /\ UpdatesFulfilled)
    /\ PublishShape

\* C20 amended: a publish call is enqueued if and only if live is true, the
\* bulk creation has fulfilled with a decoded JSON item list and every locale
\* update has fulfilled; it names exactly the anchor's identifier, comes
\* after all calls of the saga, and is never issued when one of them rejects.
C20_PublishIffCreated ==
    /\ CallsOfKind("publish") # <<>> <=> (ca.live /\ BulkCreated /\ UpdatesFulfilled)
    /\ PublishShape

\* the publish call of a live creation in three locales is enqueued
C20_Witness ==
    /\ ca.live
    /\ Len(Secondary) = 2
    /\ ca.publish # 0
    /\ exchange[ca.publish].state = "outstanding"

\* ---------------------------------------------------------- deleteItem
Settled(c) == Fulfilled(c) \/ Rejected(c)

\* C15: deleteItem on a list of n locales enqueues exactly n DELETE calls, one
\* per locale in list order, all in the step of the call (before any of them
\* is answered) and none later; with live = false every call's path ends in
\* "/live" (unpublish), with live = true in none (plain delete).
C15_DeleteFanOut ==
    del.state # "idle" =>
        LET dels == CallsOfKind("delete") IN
        /\ Len(requests) = Len(del.locales)
        /\ [i \in DOMAIN dels |-> requests[dels[i]].locale] = del.locales
        /\ \A c \in Calls :
               /\ requests[c].method = "DELETE"
               /\ requests[c].id = ANCHOR_ID
               /\ requests[c].suffix = IF del.live THEN "" ELSE "/live"

\* three unpublishing calls are enqueued and none has been answered
C15_Witness ==
    /\ del.state = "waiting"
    /\ ~del.live
    /\ Len(CallsOfKind("delete")) = 3
    /\ Responded = {}
    /\ Len(queue) = 2

\* C18 as stated: the promise of deleteItem has its result only once all of
\* its per-locale calls have settled, and it is rejected if one was rejected.
C18_FanInAfterAllSettle ==
    /\ del.state \in {"fulfilled", "rejected"} => \A c \in Range(del.calls) : Settled(c)
    /\ (\E c \in Range(del.calls) : Rejected(c)) /\ (\A c \in Range(del.calls) : Settled(c))
           => del.state = "rejected"

\* C18 amended: the promise of deleteItem is rejected as soon as one of its
\* per-locale calls is rejected, with that call's reason and whatever the
\* others' state, and it is fulfilled exactly when all of them have fulfilled.
C18_FanInFailFast ==
    /\ del.state = "rejected" <=> \E c \in Range(del.calls) : Rejected(c)
    /\ del.state = "rejected" =>
           \E c \in Range(del.calls) : Rejected(c) /\ del.error = promises[c].value
    /\ del.state = "fulfilled" <=>
           (del.state # "idle" /\ \A c \in Range(del.calls) : Fulfilled(c))

\* deleteItem is rejected while another of its calls is still waiting
C18_Witness ==
    /\ del.state = "rejected"
    /\ \E c \in Range(del.calls) : ~Settled(c)

\* ----------------------------------------------------------- fetchItem
\* C16: whenever fetchItem's promise is fulfilled, the call was answered with
\* a success status and its payload is fulfilled; the value is undefined when
\* the payload has no identifier (an empty object, or a body read as text),
\* and the payload itself, unchanged, when it has one; a payload without
\* identifier never makes fetchItem reject.
C16_FetchItemNormalised ==
    \A c \in DOMAIN fi :
        /\ Fulfilled(c) =>
               /\ exchange[c].status <= MAX_SUCCESS_STATUS
               /\ fi[c].state = "fulfilled"
               /\ promises[c].value.doc = EmptyDoc => fi[c].value = Undefined
               /\ promises[c].value.tag = "text" => fi[c].value = Undefined
               /\ promises[c].value.tag = "json" /\ promises[c].value.doc # EmptyDoc =>
                      /\ fi[c].value = promises[c].value
                      /\ fi[c].value.doc.id = requests[c].id
        /\ fi[c].state = "fulfilled" => Fulfilled(c)
        /\ fi[c].state = "rejected" <=> Rejected(c)

\* one fetchItem found no item and fulfilled with undefined, another found its item
C16_Witness ==
    \E c1, c2 \in DOMAIN fi :
        /\ requests[c1].id = UNKNOWN_ID
        /\ promises[c1].value = [tag |-> "json", doc |-> EmptyDoc]
        /\ fi[c1] = [state |-> "fulfilled", value |-> Undefined]
        /\ fi[c2].state = "fulfilled"
        /\ fi[c2].value = [tag |-> "json", doc |-> Item(ANCHOR_ID, SPANISH)]
====
